---------------------------- MODULE Spec2Model ----------------------------
(***************************************************************************)
(* AlphaSimulator (src/AlphaSimulator.py): the durable queue file, the     *)
(* bounded-concurrency submission loop, the polling pass and the           *)
(* re-login / retry policy, as one single-threaded state machine.          *)
(*                                                                         *)
(* A queue-file row is a number 1..NJobs (its position in the original     *)
(* file); the rows in `bad` carry a settings field that json.loads         *)
(* rejects.  A tracking locator is <<job, k>>, k telling apart the         *)
(* locators of one payload that are tracked at the same time.  The process *)
(* may be killed at any point (Kill) and started again; files survive,     *)
(* memory does not.  Local file operations may raise (at most MaxIOErrors  *)
(* times in a run): those of the queue file and the appends to the sinks.  *)
(*                                                                         *)
(* AutoCorrelationChecker (src/analyzer/auto_correlation_checker.py) is a  *)
(* second program: a pool of worker threads that share one session and one *)
(* result file.  It has its own variables and its own specification        *)
(* (CheckerSpec); while one program runs the other one's state stands      *)
(* still.                                                                  *)
(***************************************************************************)
EXTENDS Integers, Sequences, FiniteSets, TLC

\* ---- bounds of the model ----
NJobs == 2
MaxConcurrent == 2
MaxBatch == 1
MaxWait == 1
MaxIOErrors == 1
thread_count == 2           \* workers of the checker's pool
NIds == 2                   \* alpha ids the checker is given
max_retry == 5              \* the checker's max_retry

\* ---- program constants ----
count_limit == 5
max_retries == 5
SizeThreshold == 50
HeaderBytes == 23
RowBytes == 60

renew_every == 5

Rows == 1..NJobs
NoAlpha == 0

Workers == 1..thread_count
NoWorker == 0
Ids == 1..NIds

VARIABLES
    pc,                     \* control point of the single thread
    ret,                    \* who sign_in returns to: "init", "submit", "poll"
    session,                \* self.session: "valid" or "null"
    count,                  \* sign_in's local count
    file,                   \* the queue file alpha_list_file_path
    tmp,                    \* the temporary file alpha_list_file_path + '.tmp'
    alphas,                 \* takeBatch's local list
    tb_from,                \* who called read_alphas_from_csv_in_batches
    sim_queue_ls,           \* self.sim_queue_ls
    active_simulations,     \* self.active_simulations
    alpha,                  \* simulate_alpha's argument (NoAlpha outside it)
    attempt,                \* simulate_alpha's local attempt
    status_code,            \* simulate_alpha's local status_code, while the
                            \* failed request is being handled
    sleep_left,             \* seconds left of time.sleep(retry_after)
    todo,                   \* check_simulation_status: the rest of the snapshot
    sim_url,                \* check_simulation_status: the handle being polled
    response,               \* check_simulation_progress's return value
    simulated_alphas,       \* the Result Sink file: rows appended, per job
    fail_alphas,            \* the Failure Sink file: rows appended, per job
    max_concurrent,         \* self.max_concurrent
    batch_size,             \* self.batch_number_for_every_queue
    bad,                    \* rows whose settings field is not JSON
    orig,                   \* history: the rows of the queue file at first start
    file0,                  \* history: the queue file's rows when the running
                            \* takeBatch was entered
    taken,                  \* history: times each row was returned by takeBatch
                            \* (0, 1, or 2 for more than once)
    gen_errs,               \* history: generic errors seen by this simulate_alpha
    renewals,               \* history: sign_in calls made by this
                            \* simulate_alpha (0, 1, or 2 for more than one)
    io_errors,              \* history: I/O errors raised so far
    dispatched,             \* history: the rows that were ever popped from
                            \* sim_queue_ls for submission
    \* ---- analyzer/auto_correlation_checker.py: AutoCorrelationChecker ----
    run_pc,                 \* control point of the checker's main thread
    checker_session,        \* self.session of the checker: "valid" or "null"
    alpha_ids,              \* run()'s local alpha_ids: the ids extracted
                            \* from the report
    alpha_ids_to_check,     \* the ids extracted from the report; behind the
                            \* filter of run(), those of them that no worker
                            \* has taken yet
    w_pc,                   \* control point of each worker thread
    w_alpha_id,             \* process_alpha's argument, per worker
    w_count,                \* check_single_alpha's local count, per worker
    w_response,             \* check_single_alpha's local response, per
                            \* worker: "unbound", or the status it carries
    w_file_exists,          \* save_result's local file_exists, per worker
    result_lock,            \* self.result_lock: its holder, or NoWorker
    result_file             \* the file result_path: its lines, in order

vars == <<pc, ret, session, count, file, tmp, alphas, tb_from, sim_queue_ls,
          active_simulations, alpha, attempt, sleep_left, todo, sim_url,
          response, simulated_alphas, fail_alphas, max_concurrent, batch_size,
          bad, orig, file0, taken, gen_errs, renewals, io_errors, status_code,
          dispatched, run_pc, checker_session, alpha_ids, alpha_ids_to_check,
          w_pc, w_alpha_id, w_count, w_response, w_file_exists, result_lock,
          result_file>>

\* the state of the correlation checker, a program of its own
CheckerVars ==
    <<run_pc, checker_session, alpha_ids, alpha_ids_to_check, w_pc, w_alpha_id,
      w_count, w_response, w_file_exists, result_lock, result_file>>

\* the state of the simulator
SimulatorVars ==
    <<pc, ret, session, count, file, tmp, alphas, tb_from, sim_queue_ls,
      active_simulations, alpha, attempt, sleep_left, todo, sim_url,
      response, simulated_alphas, fail_alphas, max_concurrent, batch_size,
      bad, orig, file0, taken, gen_errs, renewals, io_errors, status_code,
      dispatched>>

\* ---- files ----
Absent == [exists |-> FALSE, header |-> FALSE, rows |-> <<>>]
EmptyFile == [exists |-> TRUE, header |-> FALSE, rows |-> <<>>]
QueueFile(rs) == [exists |-> TRUE, header |-> TRUE, rows |-> rs]

\* os.path.getsize: the header line plus one line per row
getsize(f) ==
    (IF f.header THEN HeaderBytes ELSE 0) + RowBytes * Len(f.rows)

Min(a, b) == IF a < b THEN a ELSE b

Range(s) == {s[i] : i \in 1..Len(s)}

RECURSIVE SelectWellFormed(_, _)
\* the rows of s that json.loads accepts, in order (lines 60-66)
SelectWellFormed(s, b) ==
    IF s = <<>> THEN <<>>
    ELSE IF Head(s) \in b THEN SelectWellFormed(Tail(s), b)
         ELSE <<Head(s)>> \o SelectWellFormed(Tail(s), b)

Window_one_more(rs, n) == SubSeq(rs, 1, Min(n + 1, Len(rs)))

Window_from_the_end(rs, n) ==
    SubSeq(rs, Len(rs) - Min(n, Len(rs)) + 1, Len(rs))

\* the rows next(reader) yields in `for _ in range(batch_size)` (lines 57-68)
Window(rs, n) == SubSeq(rs, 1, Min(n, Len(rs)))

Remaining_off_by_one(rs, n) == SubSeq(rs, Min(n, Len(rs)) + 2, Len(rs))

\* what `for remaining_row in reader` still finds (lines 70-71)
Remaining(rs, n) == SubSeq(rs, Min(n, Len(rs)) + 1, Len(rs))

Count(s, x) == Cardinality({i \in 1..Len(s) : s[i] = x})

\* list.remove(x): drops the first occurrence
RECURSIVE Remove(_, _)
Remove(s, x) ==
    IF s = <<>> THEN <<>>
    ELSE IF Head(s) = x THEN Tail(s)
         ELSE <<Head(s)>> \o Remove(Tail(s), x)

\* a sink file holds one row per appended record; the code never reads the
\* file back, so it is kept as the number of rows appended for each job
NoRecords == [r \in Rows |-> 0]

\* open(sink, 'a') ... writer.writerow(record of job j)
AppendRow(sink, j) == [sink EXCEPT ![j] = @ + 1]

\* ---- memory after the constructor's assignments (lines 11-20) ----
Memory0 ==
    /\ ret = "init"
    /\ session = "null"
    /\ count = 0
    /\ alphas = <<>>
    /\ tb_from = "manage"
    /\ sim_queue_ls = <<>>
    /\ active_simulations = <<>>
    /\ alpha = NoAlpha
    /\ attempt = 0
    /\ sleep_left = 0
    /\ todo = <<>>
    /\ sim_url = <<>>
    /\ response = "none"
    /\ gen_errs = 0
    /\ status_code = "none"
    /\ renewals = 0

\* ---- the checker's result file: the header line and one line per row ----
NoFile == [exists |-> FALSE, lines |-> <<>>]
HeaderLine == [kind |-> "header", alpha_id |-> NoAlpha]
RowLine(id) == [kind |-> "row", alpha_id |-> id]

\* the checker before run() is called, and when it is not run at all
CheckerIdle ==
    /\ run_pc = "start"
    /\ checker_session = "null"
    /\ alpha_ids = <<>>
    /\ alpha_ids_to_check = <<>>
    /\ w_pc = [w \in Workers |-> "idle"]
    /\ w_alpha_id = [w \in Workers |-> NoAlpha]
    /\ w_count = [w \in Workers |-> 0]
    /\ w_response = [w \in Workers |-> "unbound"]
    /\ w_file_exists = [w \in Workers |-> FALSE]
    /\ result_lock = NoWorker
    /\ result_file = NoFile

Init ==
    /\ CheckerIdle
    /\ pc = "sign_in"
    /\ Memory0
    /\ \E n \in 0..NJobs : orig = [i \in 1..n |-> i]
    /\ file \in {Absent, EmptyFile, QueueFile(orig)}
    /\ file.rows = orig
    /\ tmp = Absent
    /\ bad \in SUBSET Range(orig)
    /\ max_concurrent \in 1..MaxConcurrent
    /\ batch_size \in 1..MaxBatch
    /\ simulated_alphas = NoRecords
    /\ fail_alphas = NoRecords
    /\ file0 = <<>>
    /\ taken = [r \in Rows |-> 0]
    /\ io_errors = 0
    /\ dispatched = {}

Config == <<max_concurrent, batch_size, bad, orig>>
Sinks == <<simulated_alphas, fail_alphas>>
QueueLocals == <<alphas, tb_from, file0>>
SubmitLocals ==
    <<alpha, attempt, sleep_left, gen_errs, status_code, renewals>>
PollLocals == <<todo, sim_url, response>>

\* simulate_alpha's line 86 evaluated on the way round the loop, line 116
\* behind the loop
LoopOrFail(a) == IF a < max_retries THEN "simulate" ELSE "log_failed"

AfterSignIn_retries_on_failure(s) ==
    CASE ret = "init" -> "manage"
      [] ret = "submit" -> LoopOrFail(attempt)
      [] ret = "poll" -> IF s = "valid" THEN "poll_retry" ELSE "poll"

\* ---- sign_in (lines 22-39) ----
\* where sign_in's caller goes on with the session s it got
AfterSignIn(s) ==
    CASE ret = "init" -> "manage"
      [] ret = "submit" -> IF s = "valid" THEN LoopOrFail(attempt)
                           ELSE "log_failed"
      [] ret = "poll" -> IF s = "valid" THEN "poll_retry" ELSE "poll"

sign_in_one_more_attempt ==
    /\ pc = "sign_in"
    /\ \E ok \in BOOLEAN :
          IF ok
          THEN /\ session' = "valid"
               /\ count' = 0
               /\ pc' = AfterSignIn("valid")
               /\ ret' = "none"
               /\ status_code' = "none"
          ELSE IF count + 1 <= count_limit
               THEN /\ count' = count + 1
                    /\ UNCHANGED <<session, pc, ret, status_code>>
               ELSE /\ session' = "null"
                    /\ count' = 0
                    /\ pc' = AfterSignIn("null")
                    /\ ret' = "none"
                    /\ status_code' = "none"
    /\ UNCHANGED <<file, tmp, sim_queue_ls, active_simulations, taken,
                   io_errors, Config, CheckerVars, dispatched, Sinks,
                   QueueLocals, alpha, attempt, sleep_left, gen_errs, renewals,
                   PollLocals>>

\* one pass of `while count < count_limit`: the POST succeeds, or raises
sign_in ==
    /\ pc = "sign_in"
    /\ \E ok \in BOOLEAN :
          IF ok
          THEN /\ session' = "valid"
               /\ count' = 0
               /\ pc' = AfterSignIn("valid")
               /\ ret' = "none"
               /\ status_code' = "none"
          ELSE IF count + 1 < count_limit
               THEN /\ count' = count + 1
                    /\ UNCHANGED <<session, pc, ret, status_code>>
               ELSE /\ session' = "null"
                    /\ count' = 0
                    /\ pc' = AfterSignIn("null")
                    /\ ret' = "none"
                    /\ status_code' = "none"
    /\ UNCHANGED <<file, tmp, sim_queue_ls, active_simulations, taken,
                   io_errors, Config, CheckerVars, dispatched, Sinks,
                   QueueLocals, alpha, attempt, sleep_left, gen_errs, renewals,
                   PollLocals>>

\* ---- read_alphas_from_csv_in_batches (lines 41-80) ----
\* the caller's assignment of the returned list (lines 233-236, 137-139)
ReturnBatch(batch) ==
    /\ sim_queue_ls' = batch
    /\ taken' = [r \in Rows |-> Min(2, taken[r] + Count(batch, r))]
    /\ alphas' = <<>>
    /\ file0' = <<>>
    /\ pc' = IF batch # <<>> THEN "load"
             ELSE IF tb_from = "manage" THEN "exit_check" ELSE "topup"

TbOpen_raises_on_empty ==
    /\ pc = "tb_open"
    /\ IF file.header
       THEN /\ tmp' = QueueFile(<<>>)
            /\ pc' = "tb_read"
            /\ UNCHANGED <<sim_queue_ls, taken, alphas, file0>>
       ELSE /\ tmp' = EmptyFile
            /\ pc' = "except"
            /\ UNCHANGED <<sim_queue_ls, taken, alphas, file0>>
    /\ UNCHANGED <<ret, session, count, file, active_simulations, io_errors,
                   Config, CheckerVars, dispatched, Sinks, tb_from,
                   SubmitLocals, PollLocals>>

\* lines 46-55: both files are opened, the header is copied
TbOpen ==
    /\ pc = "tb_open"
    /\ IF file.header
       THEN /\ tmp' = QueueFile(<<>>)
            /\ pc' = "tb_read"
            /\ UNCHANGED <<sim_queue_ls, taken, alphas, file0>>
       ELSE /\ tmp' = EmptyFile
            /\ ReturnBatch(<<>>)
    /\ UNCHANGED <<ret, session, count, file, active_simulations, io_errors,
                   Config, CheckerVars, dispatched, Sinks, tb_from,
                   SubmitLocals, PollLocals>>

\* lines 57-68: up to batch_size rows are read, the malformed ones skipped
TbRead ==
    /\ pc = "tb_read"
    /\ alphas' = SelectWellFormed(Window(file.rows, batch_size), bad)
    /\ pc' = "tb_write"
    /\ UNCHANGED <<ret, session, count, file, tmp, sim_queue_ls,
                   active_simulations, taken, io_errors, Config, CheckerVars,
                   dispatched, Sinks, tb_from, file0, SubmitLocals,
                   PollLocals>>

\* lines 70-71: the rest of the file is copied to the temporary file
TbWrite ==
    /\ pc = "tb_write"
    /\ tmp' = QueueFile(Remaining(file.rows, batch_size))
    /\ pc' = "tb_replace"
    /\ UNCHANGED <<ret, session, count, file, sim_queue_ls, active_simulations,
                   taken, io_errors, Config, CheckerVars, dispatched, Sinks,
                   QueueLocals, SubmitLocals, PollLocals>>

\* line 73: os.replace, atomic
TbReplace ==
    /\ pc = "tb_replace"
    /\ file' = tmp
    /\ tmp' = Absent
    /\ pc' = "tb_return"
    /\ UNCHANGED <<ret, session, count, sim_queue_ls, active_simulations,
                   taken, io_errors, Config, CheckerVars, dispatched, Sinks,
                   QueueLocals, SubmitLocals, PollLocals>>

\* line 75: an exception anywhere in the try block; the rows read so far stay
\* in alphas, the queue file is untouched
TbError ==
    /\ pc \in {"tb_open", "tb_read", "tb_write", "tb_replace"}
    /\ io_errors < MaxIOErrors
    /\ io_errors' = io_errors + 1
    /\ IF pc = "tb_read"
       THEN \E k \in 0..Len(Window(file.rows, batch_size)) :
               alphas' = SelectWellFormed(SubSeq(file.rows, 1, k), bad)
       ELSE UNCHANGED alphas
    /\ pc' = "tb_except"
    /\ UNCHANGED <<ret, session, count, file, tmp, sim_queue_ls,
                   active_simulations, taken, Config, CheckerVars, dispatched,
                   Sinks, tb_from, file0, SubmitLocals, PollLocals>>

\* lines 76-78: the handler logs and removes the temporary file
TbExcept ==
    /\ pc = "tb_except"
    /\ tmp' = Absent
    /\ pc' = "tb_return"
    /\ UNCHANGED <<ret, session, count, file, sim_queue_ls, active_simulations,
                   taken, io_errors, Config, CheckerVars, dispatched, Sinks,
                   QueueLocals, SubmitLocals, PollLocals>>

\* line 80: return alphas
TbReturn ==
    /\ pc = "tb_return"
    /\ ReturnBatch(alphas)
    /\ UNCHANGED <<ret, session, count, file, tmp, active_simulations,
                   io_errors, Config, CheckerVars, dispatched, Sinks, tb_from,
                   SubmitLocals, PollLocals>>

\* lines 41-44: the call; an absent file gives [] at once
CallTakeBatch(from) ==
    /\ tb_from' = from
    /\ IF file.exists
       THEN /\ pc' = "tb_open"
            /\ alphas' = <<>>
            /\ file0' = file.rows
            /\ UNCHANGED <<sim_queue_ls, taken>>
       ELSE /\ sim_queue_ls' = <<>>
            /\ pc' = IF from = "manage" THEN "exit_check" ELSE "topup"
            /\ UNCHANGED <<alphas, taken, file0>>

\* ---- load_new_alpha_and_simulate and simulate_alpha (lines 82-148) ----
HasCapacity_off_by_one == Len(active_simulations) <= max_concurrent

\* the capacity test of lines 231 and 141 (141 tests its negation)
HasCapacity == Len(active_simulations) < max_concurrent

\* lines 231-236: one evaluation of the top-up loop's condition and body
TopUp ==
    /\ pc = "topup"
    /\ IF HasCapacity
       THEN IF sim_queue_ls = <<>>
            THEN CallTakeBatch("manage")
            ELSE /\ pc' = "load"
                 /\ UNCHANGED <<sim_queue_ls, taken, QueueLocals>>
       ELSE /\ pc' = "exit_check"
            /\ UNCHANGED <<sim_queue_ls, taken, QueueLocals>>
    /\ UNCHANGED <<ret, session, count, file, tmp, active_simulations,
                   io_errors, Config, CheckerVars, dispatched, Sinks,
                   SubmitLocals, PollLocals>>

\* lines 135-145: refill if empty, give up if full, else pop the head
load_new_alpha_and_simulate ==
    /\ pc = "load"
    /\ IF sim_queue_ls = <<>>
       THEN /\ CallTakeBatch("load")
            /\ UNCHANGED <<SubmitLocals, dispatched>>
       ELSE IF ~HasCapacity
            THEN /\ pc' = "topup"
                 /\ UNCHANGED <<sim_queue_ls, taken, QueueLocals,
                                SubmitLocals, dispatched>>
            ELSE /\ alpha' = Head(sim_queue_ls)
                 /\ sim_queue_ls' = Tail(sim_queue_ls)
                 /\ dispatched' = dispatched \cup {Head(sim_queue_ls)}
                 /\ attempt' = 0
                 /\ gen_errs' = 0
                 /\ renewals' = 0
                 /\ pc' = "simulate"
                 /\ UNCHANGED <<taken, QueueLocals, sleep_left, status_code>>
    /\ UNCHANGED <<ret, session, count, file, tmp, active_simulations,
                   io_errors, Config, CheckerVars, Sinks, PollLocals>>

FinishSubmit_drops_handle(loc) ==
    /\ active_simulations' = active_simulations
    /\ alpha' = NoAlpha
    /\ attempt' = 0
    /\ gen_errs' = 0
    /\ status_code' = "none"
    /\ renewals' = 0
    /\ pc' = "topup"

\* lines 146-148: simulate_alpha has returned loc (<<>> for None)
FinishSubmit(loc) ==
    /\ active_simulations' =
          IF loc # <<>> THEN Append(active_simulations, loc)
          ELSE active_simulations
    /\ alpha' = NoAlpha
    /\ attempt' = 0
    /\ gen_errs' = 0
    /\ status_code' = "none"
    /\ renewals' = 0
    /\ pc' = "topup"

Attempted_counts_429(kind) ==
    IF kind \in {"error", "429"} THEN attempt + 1 ELSE attempt

\* the attempt counter after a failed request of the given kind (lines 93-111)
Attempted(kind) == IF kind = "error" THEN attempt + 1 ELSE attempt

\* the location header of an accepted submission: a locator the remote
\* service has not handed out among those still tracked
Location(j) ==
    <<j, CHOOSE k \in 1..(Len(active_simulations) + 1) :
            /\ <<j, k>> \notin Range(active_simulations)
            /\ \A m \in 1..(k - 1) : <<j, m>> \in Range(active_simulations)>>

\* lines 88-90: accepted, the response carries a location
SubmitOk ==
    /\ pc = "simulate"
    /\ session = "valid"
    /\ FinishSubmit(Location(alpha))
    /\ UNCHANGED <<ret, session, count, file, tmp, sim_queue_ls, taken,
                   io_errors, Config, CheckerVars, dispatched, Sinks,
                   QueueLocals, sleep_left, PollLocals>>

\* line 90: accepted, but headers.get("location") is None
SubmitNoLocation ==
    /\ pc = "simulate"
    /\ session = "valid"
    /\ FinishSubmit(<<>>)
    /\ UNCHANGED <<ret, session, count, file, tmp, sim_queue_ls, taken,
                   io_errors, Config, CheckerVars, dispatched, Sinks,
                   QueueLocals, sleep_left, PollLocals>>

\* lines 93-95: 401, sign_in is called
Submit401 ==
    /\ pc = "simulate"
    /\ session = "valid"
    /\ attempt' = Attempted("401")
    /\ status_code' = "401"
    /\ renewals' = Min(2, renewals + 1)
    /\ ret' = "submit"
    /\ count' = 0
    /\ pc' = "sign_in"
    /\ UNCHANGED <<session, file, tmp, sim_queue_ls, active_simulations, taken,
                   io_errors, Config, CheckerVars, dispatched, Sinks,
                   QueueLocals, alpha, sleep_left, gen_errs, PollLocals>>

\* lines 101-104: 429, time.sleep(retry_after) begins
Submit429 ==
    /\ pc = "simulate"
    /\ session = "valid"
    /\ attempt' = Attempted("429")
    /\ status_code' = "429"
    /\ \E w \in 0..MaxWait : sleep_left' = w
    /\ pc' = "sleep"
    /\ UNCHANGED <<ret, session, count, file, tmp, sim_queue_ls,
                   active_simulations, taken, io_errors, Config, CheckerVars,
                   dispatched, Sinks, QueueLocals, alpha, gen_errs, renewals,
                   PollLocals>>

\* what a failed request that is neither 401 nor 429 leaves in status_code:
\* the service rejects the payload as invalid (400), the service fails
\* (500), or there is no response at all (a network error; "none")
ErrorCodes == {"400", "500", "none"}

\* lines 106-112: another HTTP error, or a network error
SubmitError ==
    /\ pc = "simulate"
    /\ session = "valid"
    /\ status_code' \in ErrorCodes
    /\ attempt' = Attempted("error")
    /\ gen_errs' = gen_errs + 1
    /\ pc' = IF LoopOrFail(attempt') = "simulate" THEN "backoff"
             ELSE "log_failed"
    /\ UNCHANGED <<ret, session, count, file, tmp, sim_queue_ls,
                   active_simulations, taken, io_errors, Config, CheckerVars,
                   dispatched, Sinks, QueueLocals, alpha, sleep_left, renewals,
                   PollLocals>>

\* lines 113-114: time.sleep(10), then the next pass of the loop
Backoff ==
    /\ pc = "backoff"
    /\ status_code' = "none"
    /\ pc' = "simulate"
    /\ UNCHANGED <<ret, session, count, file, tmp, sim_queue_ls,
                   active_simulations, taken, io_errors, Config, CheckerVars,
                   dispatched, Sinks, QueueLocals, alpha, attempt, sleep_left,
                   gen_errs, renewals, PollLocals>>

\* line 88 with self.session None: AttributeError, caught at line 247
SubmitNoSession ==
    /\ pc = "simulate"
    /\ session = "null"
    /\ alpha' = NoAlpha
    /\ attempt' = 0
    /\ gen_errs' = 0
    /\ renewals' = 0
    /\ pc' = "except"
    /\ UNCHANGED <<ret, session, count, file, tmp, sim_queue_ls,
                   active_simulations, taken, io_errors, Config, CheckerVars,
                   dispatched, Sinks, QueueLocals, sleep_left, status_code,
                   PollLocals>>

\* line 104: one second of the sleep passes
Tick ==
    /\ pc = "sleep"
    /\ sleep_left > 0
    /\ sleep_left' = sleep_left - 1
    /\ UNCHANGED <<pc, ret, session, count, file, tmp, sim_queue_ls,
                   active_simulations, taken, io_errors, Config, CheckerVars,
                   dispatched, Sinks, QueueLocals, alpha, attempt, gen_errs,
                   status_code, renewals, PollLocals>>

Wake_early ==
    /\ pc = "sleep"
    /\ pc' = LoopOrFail(attempt)
    /\ status_code' = "none"
    /\ UNCHANGED <<ret, session, count, file, tmp, sim_queue_ls,
                   active_simulations, taken, io_errors, Config, CheckerVars,
                   dispatched, Sinks, QueueLocals, alpha, attempt, sleep_left,
                   gen_errs, renewals, PollLocals>>

\* line 105: the sleep is over, continue
Wake ==
    /\ pc = "sleep"
    /\ sleep_left = 0
    /\ pc' = LoopOrFail(attempt)
    /\ status_code' = "none"
    /\ UNCHANGED <<ret, session, count, file, tmp, sim_queue_ls,
                   active_simulations, taken, io_errors, Config, CheckerVars,
                   dispatched, Sinks, QueueLocals, alpha, attempt, sleep_left,
                   gen_errs, renewals, PollLocals>>

log_failed_alpha_only_logs ==
    /\ pc = "log_failed"
    /\ FinishSubmit(<<>>)
    /\ UNCHANGED <<ret, session, count, file, tmp, sim_queue_ls, taken,
                   io_errors, Config, CheckerVars, dispatched, Sinks,
                   QueueLocals, sleep_left, PollLocals>>

\* lines 119-131 behind line 116, then return None
log_failed_alpha ==
    /\ pc = "log_failed"
    /\ fail_alphas' = AppendRow(fail_alphas, alpha)
    /\ FinishSubmit(<<>>)
    /\ UNCHANGED <<ret, session, count, file, tmp, sim_queue_ls, taken,
                   io_errors, Config, CheckerVars, dispatched,
                   simulated_alphas, QueueLocals, sleep_left, PollLocals>>

\* lines 130-131: the append to the Failure Sink raises; the handler logs it
\* and the job is left without a row
log_failed_alpha_write_error ==
    /\ pc = "log_failed"
    /\ io_errors < MaxIOErrors
    /\ io_errors' = io_errors + 1
    /\ FinishSubmit(<<>>)
    /\ UNCHANGED <<ret, session, count, file, tmp, sim_queue_ls, taken, Config,
                   CheckerVars, dispatched, Sinks, QueueLocals, sleep_left,
                   PollLocals>>

\* ---- check_simulation_status and check_simulation_progress (150-218) ----
\* what a successful GET of a locator can carry: a non-zero Retry-After, or
\* none with status COMPLETE and an alpha id, COMPLETE without an id, or
\* another status
Responses == {"pending", "complete", "complete_noid", "other"}

check_simulation_status_skips_first ==
    /\ pc = "status"
    /\ IF active_simulations = <<>>
       THEN /\ pc' = "topup"
            /\ UNCHANGED todo
       ELSE /\ todo' = Tail(active_simulations)
            /\ pc' = "poll"
    /\ UNCHANGED <<ret, session, count, file, tmp, sim_queue_ls,
                   active_simulations, taken, io_errors, Config, CheckerVars,
                   dispatched, Sinks, QueueLocals, SubmitLocals, sim_url,
                   response>>

\* lines 177-180: nothing to do, or the snapshot active_simulations[:]
check_simulation_status ==
    /\ pc = "status"
    /\ IF active_simulations = <<>>
       THEN /\ pc' = "topup"
            /\ UNCHANGED todo
       ELSE /\ todo' = active_simulations
            /\ pc' = "poll"
    /\ UNCHANGED <<ret, session, count, file, tmp, sim_queue_ls,
                   active_simulations, taken, io_errors, Config, CheckerVars,
                   dispatched, Sinks, QueueLocals, SubmitLocals, sim_url,
                   response>>

\* line 218: the for loop is over
PollDone ==
    /\ pc = "poll"
    /\ todo = <<>>
    /\ sim_url' = <<>>
    /\ pc' = "topup"
    /\ UNCHANGED <<ret, session, count, file, tmp, sim_queue_ls,
                   active_simulations, taken, io_errors, Config, CheckerVars,
                   dispatched, Sinks, QueueLocals, SubmitLocals, todo,
                   response>>

\* lines 152-154: the GET of the next handle succeeds
PollOk ==
    /\ pc = "poll"
    /\ todo # <<>>
    /\ session = "valid"
    /\ sim_url' = Head(todo)
    /\ todo' = Tail(todo)
    /\ response' \in Responses
    /\ pc' = "handle"
    /\ UNCHANGED <<ret, session, count, file, tmp, sim_queue_ls,
                   active_simulations, taken, io_errors, Config, CheckerVars,
                   dispatched, Sinks, QueueLocals, SubmitLocals>>

\* lines 156-158: the GET of the next handle is answered 401
Poll401 ==
    /\ pc = "poll"
    /\ todo # <<>>
    /\ session = "valid"
    /\ sim_url' = Head(todo)
    /\ todo' = Tail(todo)
    /\ ret' = "poll"
    /\ count' = 0
    /\ pc' = "sign_in"
    /\ UNCHANGED <<session, file, tmp, sim_queue_ls, active_simulations, taken,
                   io_errors, Config, CheckerVars, dispatched, Sinks,
                   QueueLocals, SubmitLocals, response>>

\* lines 169-174, 183-185: another HTTP error or a network error: None
PollError ==
    /\ pc = "poll"
    /\ todo # <<>>
    /\ session = "valid"
    /\ sim_url' = Head(todo)
    /\ todo' = Tail(todo)
    /\ UNCHANGED <<pc, ret, session, count, file, tmp, sim_queue_ls,
                   active_simulations, taken, io_errors, Config, CheckerVars,
                   dispatched, Sinks, QueueLocals, SubmitLocals, response>>

\* line 152 with self.session None: AttributeError, caught at line 247
PollNoSession ==
    /\ pc = "poll"
    /\ todo # <<>>
    /\ session = "null"
    /\ todo' = <<>>
    /\ sim_url' = <<>>
    /\ pc' = "except"
    /\ UNCHANGED <<ret, session, count, file, tmp, sim_queue_ls,
                   active_simulations, taken, io_errors, Config, CheckerVars,
                   dispatched, Sinks, QueueLocals, SubmitLocals, response>>

\* lines 161-164: the one retry after a successful re-login succeeds
PollRetryOk ==
    /\ pc = "poll_retry"
    /\ response' \in Responses
    /\ pc' = "handle"
    /\ UNCHANGED <<ret, session, count, file, tmp, sim_queue_ls,
                   active_simulations, taken, io_errors, Config, CheckerVars,
                   dispatched, Sinks, QueueLocals, SubmitLocals, todo,
                   sim_url>>

PollRetryError_renews_again ==
    /\ pc = "poll_retry"
    /\ pc' = "sign_in"
    /\ ret' = "poll"
    /\ UNCHANGED <<session, count, file, tmp, sim_queue_ls, active_simulations,
                   taken, io_errors, Config, CheckerVars, dispatched, Sinks,
                   QueueLocals, SubmitLocals, PollLocals>>

\* lines 165-166: the retry fails too: None
PollRetryError ==
    /\ pc = "poll_retry"
    /\ pc' = "poll"
    /\ UNCHANGED <<ret, session, count, file, tmp, sim_queue_ls,
                   active_simulations, taken, io_errors, Config, CheckerVars,
                   dispatched, Sinks, QueueLocals, SubmitLocals, PollLocals>>

HandleResponse_removes_pending ==
    /\ pc = "handle"
    /\ response' = "none"
    /\ active_simulations' = Remove(active_simulations, sim_url)
    /\ pc' = IF response = "complete" THEN "details" ELSE "poll"
    /\ UNCHANGED <<ret, session, count, file, tmp, sim_queue_ls, taken,
                   io_errors, Config, CheckerVars, dispatched, Sinks,
                   QueueLocals, SubmitLocals, todo, sim_url>>

\* lines 187-199, 214-215: a non-zero Retry-After changes nothing; otherwise
\* the handle is removed, and only COMPLETE with an alpha id goes on to
\* fetch the details
HandleResponse ==
    /\ pc = "handle"
    /\ response' = "none"
    /\ IF response = "pending"
       THEN /\ pc' = "poll"
            /\ UNCHANGED active_simulations
       ELSE /\ active_simulations' = Remove(active_simulations, sim_url)
            /\ pc' = IF response = "complete" THEN "details" ELSE "poll"
    /\ UNCHANGED <<ret, session, count, file, tmp, sim_queue_ls, taken,
                   io_errors, Config, CheckerVars, dispatched, Sinks,
                   QueueLocals, SubmitLocals, todo, sim_url>>

\* lines 202-211: the details are fetched and appended to the result file
DetailsOk ==
    /\ pc = "details"
    /\ simulated_alphas' = AppendRow(simulated_alphas, sim_url[1])
    /\ pc' = "poll"
    /\ UNCHANGED <<ret, session, count, file, tmp, sim_queue_ls,
                   active_simulations, taken, io_errors, Config, CheckerVars,
                   dispatched, fail_alphas, QueueLocals, SubmitLocals,
                   PollLocals>>

\* lines 212-213: the GET of the details raises; logged
DetailsError ==
    /\ pc = "details"
    /\ pc' = "poll"
    /\ UNCHANGED <<ret, session, count, file, tmp, sim_queue_ls,
                   active_simulations, taken, io_errors, Config, CheckerVars,
                   dispatched, Sinks, QueueLocals, SubmitLocals, PollLocals>>

\* lines 205-211: the append to the Result Sink raises an OSError, which line
\* 212 does not catch; it leaves check_simulation_status for line 247
DetailsWriteError ==
    /\ pc = "details"
    /\ io_errors < MaxIOErrors
    /\ io_errors' = io_errors + 1
    /\ todo' = <<>>
    /\ sim_url' = <<>>
    /\ pc' = "except"
    /\ UNCHANGED <<ret, session, count, file, tmp, sim_queue_ls,
                   active_simulations, taken, Config, CheckerVars, dispatched,
                   Sinks, QueueLocals, SubmitLocals, response>>

\* ---- manage_simulations (lines 220-249) ----
is_file_present_never == FALSE

\* line 238
is_file_present == file.exists /\ getsize(file) > SizeThreshold

manage_simulations_ignores_session ==
    /\ pc = "manage"
    /\ pc' = "status"
    /\ UNCHANGED <<ret, session, count, file, tmp, sim_queue_ls,
                   active_simulations, taken, io_errors, Config, CheckerVars,
                   dispatched, Sinks, QueueLocals, SubmitLocals, PollLocals>>

\* lines 221-223: no session, no loop
manage_simulations ==
    /\ pc = "manage"
    /\ pc' = IF session = "null" THEN "exit_login" ELSE "status"
    /\ UNCHANGED <<ret, session, count, file, tmp, sim_queue_ls,
                   active_simulations, taken, io_errors, Config, CheckerVars,
                   dispatched, Sinks, QueueLocals, SubmitLocals, PollLocals>>

\* lines 238-243: leave the loop, or sleep and start the next cycle
ExitCheck ==
    /\ pc = "exit_check"
    /\ pc' = IF sim_queue_ls = <<>> /\ active_simulations = <<>>
                /\ ~is_file_present
             THEN "exit_complete" ELSE "status"
    /\ UNCHANGED <<ret, session, count, file, tmp, sim_queue_ls,
                   active_simulations, taken, io_errors, Config, CheckerVars,
                   dispatched, Sinks, QueueLocals, SubmitLocals, PollLocals>>

MainExcept_leaves_loop ==
    /\ pc = "except"
    /\ pc' = "exit_complete"
    /\ UNCHANGED <<ret, session, count, file, tmp, sim_queue_ls,
                   active_simulations, taken, io_errors, Config, CheckerVars,
                   dispatched, Sinks, QueueLocals, SubmitLocals, PollLocals>>

\* lines 247-249: the exception is logged, the loop goes on
MainExcept ==
    /\ pc = "except"
    /\ pc' = "status"
    /\ UNCHANGED <<ret, session, count, file, tmp, sim_queue_ls,
                   active_simulations, taken, io_errors, Config, CheckerVars,
                   dispatched, Sinks, QueueLocals, SubmitLocals, PollLocals>>

InLoop ==
    /\ pc \notin {"manage", "exit_login", "exit_complete", "exit_interrupt"}
    /\ ~(pc = "sign_in" /\ ret = "init")

\* lines 244-246: KeyboardInterrupt anywhere inside the try; the loop is left
\* and the process ends, its memory with it
Interrupt ==
    /\ InLoop
    /\ pc' = "exit_interrupt"
    /\ ret' = "none"
    /\ session' = "null"
    /\ count' = 0
    /\ alphas' = <<>>
    /\ tb_from' = "manage"
    /\ sim_queue_ls' = <<>>
    /\ active_simulations' = <<>>
    /\ alpha' = NoAlpha
    /\ attempt' = 0
    /\ sleep_left' = 0
    /\ todo' = <<>>
    /\ sim_url' = <<>>
    /\ response' = "none"
    /\ gen_errs' = 0
    /\ status_code' = "none"
    /\ renewals' = 0
    /\ file0' = <<>>
    /\ UNCHANGED <<file, tmp, taken, io_errors, Config, CheckerVars,
                   dispatched, Sinks>>

\* the process is killed and started again: the files and the remote service
\* keep their state, the constructor (lines 11-20) resets the memory
Kill ==
    /\ pc' = "sign_in"
    /\ ret' = "init"
    /\ session' = "null"
    /\ count' = 0
    /\ alphas' = <<>>
    /\ tb_from' = "manage"
    /\ sim_queue_ls' = <<>>
    /\ active_simulations' = <<>>
    /\ alpha' = NoAlpha
    /\ attempt' = 0
    /\ sleep_left' = 0
    /\ todo' = <<>>
    /\ sim_url' = <<>>
    /\ response' = "none"
    /\ gen_errs' = 0
    /\ status_code' = "none"
    /\ renewals' = 0
    /\ file0' = <<>>
    /\ UNCHANGED <<file, tmp, taken, io_errors, Config, CheckerVars,
                   dispatched, Sinks>>
\* ==== AutoCorrelationChecker (src/analyzer/auto_correlation_checker.py) ====
\* load_processed_alpha_ids (lines 118-131): the ids of the rows in the file
Processed(f) ==
    {f.lines[i].alpha_id : i \in {k \in 1..Len(f.lines) :
                                     f.lines[k].kind = "row"}}

\* the filter of line 202
ToCheck(ids, f) ==
    LET fresh(id) == id \notin Processed(f) IN SelectSeq(ids, fresh)

\* run(), lines 186-211: sign in, leave without a session or without ids to
\* check, else hand the ids to the pool.  sign_in's up to 30 posts (lines
\* 43-61) are one step here, with either outcome.
RunStart ==
    /\ run_pc = "start"
    /\ \E s \in {"valid", "null"} :
          /\ checker_session' = s
          /\ IF s = "null"
             THEN /\ run_pc' = "done"
                  /\ UNCHANGED alpha_ids_to_check
             ELSE /\ alpha_ids_to_check' = ToCheck(alpha_ids_to_check,
                                                   result_file)
                  /\ run_pc' = IF alpha_ids_to_check' = <<>> THEN "done"
                               ELSE "pool"
    /\ UNCHANGED <<alpha_ids, w_pc, w_alpha_id, w_count, w_response,
                   w_file_exists, result_lock, result_file, SimulatorVars>>

\* lines 214-228: the executor's queue is empty and every worker is back
RunDone ==
    /\ run_pc = "pool"
    /\ alpha_ids_to_check = <<>>
    /\ \A w \in Workers : w_pc[w] = "idle"
    /\ run_pc' = "done"
    /\ UNCHANGED <<checker_session, alpha_ids, alpha_ids_to_check, w_pc,
                   w_alpha_id, w_count, w_response, w_file_exists, result_lock,
                   result_file, SimulatorVars>>

\* process_alpha is over for worker w, by return or by an exception that the
\* future keeps (lines 225-226); the thread is free for the next id
TaskEnds(w) ==
    /\ w_pc' = [w_pc EXCEPT ![w] = "idle"]
    /\ w_alpha_id' = [w_alpha_id EXCEPT ![w] = NoAlpha]
    /\ w_count' = [w_count EXCEPT ![w] = 0]
    /\ w_response' = [w_response EXCEPT ![w] = "unbound"]
    /\ w_file_exists' = [w_file_exists EXCEPT ![w] = FALSE]

\* lines 216, 178-180, 133-136: a free worker takes the next id and enters
\* check_single_alpha
WTake(w) ==
    /\ run_pc = "pool"
    /\ w_pc[w] = "idle"
    /\ alpha_ids_to_check # <<>>
    /\ w_alpha_id' = [w_alpha_id EXCEPT ![w] = Head(alpha_ids_to_check)]
    /\ alpha_ids_to_check' = Tail(alpha_ids_to_check)
    /\ w_pc' = [w_pc EXCEPT ![w] = "get"]
    /\ UNCHANGED <<run_pc, checker_session, alpha_ids, w_count, w_response,
                   w_file_exists, result_lock, result_file, SimulatorVars>>

\* line 137; behind the loop (lines 163-165) the FAIL result goes to
\* save_result
LoopOrGiveUp(c) == IF c < max_retry THEN "get" ELSE "save"

\* lines 139-154: the GET succeeds and a result is returned, with or without
\* a SELF_CORRELATION entry
WGetOk(w) ==
    /\ w_pc[w] = "get"
    /\ checker_session = "valid"
    /\ w_pc' = [w_pc EXCEPT ![w] = "save"]
    /\ w_response' = [w_response EXCEPT ![w] = "200"]
    /\ UNCHANGED <<run_pc, checker_session, alpha_ids, alpha_ids_to_check,
                   w_alpha_id, w_count, w_file_exists, result_lock,
                   result_file, SimulatorVars>>

\* lines 139-140, 155-158: the GET is answered with an error status; response
\* is bound to that answer
WGetHttpError(w) ==
    /\ w_pc[w] = "get"
    /\ checker_session = "valid"
    /\ \E st \in {"401", "500"} :
          w_response' = [w_response EXCEPT ![w] = st]
    /\ w_count' = [w_count EXCEPT ![w] = @ + 1]
    /\ w_pc' = [w_pc EXCEPT ![w] = "slept"]
    /\ UNCHANGED <<run_pc, checker_session, alpha_ids, alpha_ids_to_check,
                   w_alpha_id, w_file_exists, result_lock, result_file,
                   SimulatorVars>>

\* lines 139, 155-158: the GET itself raises (no answer); response keeps
\* what it was bound to before, if anything
WGetNetworkError(w) ==
    /\ w_pc[w] = "get"
    /\ checker_session = "valid"
    /\ w_count' = [w_count EXCEPT ![w] = @ + 1]
    /\ w_pc' = [w_pc EXCEPT ![w] = "slept"]
    /\ UNCHANGED <<run_pc, checker_session, alpha_ids, alpha_ids_to_check,
                   w_alpha_id, w_response, w_file_exists, result_lock,
                   result_file, SimulatorVars>>

\* line 139 with self.session None: AttributeError, which line 155 does not
\* catch
WGetNoSession(w) ==
    /\ w_pc[w] = "get"
    /\ checker_session = "null"
    /\ TaskEnds(w)
    /\ UNCHANGED <<run_pc, checker_session, alpha_ids, alpha_ids_to_check,
                   result_lock, result_file, SimulatorVars>>

\* line 159 behind the sleep: an unbound response raises UnboundLocalError;
\* a 401 at every fifth failure goes to sign_in; else the loop goes on
WAfterSleep(w) ==
    /\ w_pc[w] = "slept"
    /\ IF w_response[w] = "unbound"
       THEN TaskEnds(w)
       ELSE /\ w_pc' = [w_pc EXCEPT ![w] =
                          IF w_response[w] = "401"
                             /\ w_count[w] % renew_every = 0
                          THEN "sign_in" ELSE LoopOrGiveUp(w_count[w])]
            /\ UNCHANGED <<w_alpha_id, w_count, w_response, w_file_exists>>
    /\ UNCHANGED <<run_pc, checker_session, alpha_ids, alpha_ids_to_check,
                   result_lock, result_file, SimulatorVars>>

\* lines 160-162: sign_in returns and self.session is assigned; without a
\* session the loop is left.  The posts of sign_in are one step.
WSignIn(w) ==
    /\ w_pc[w] = "sign_in"
    /\ \E s \in {"valid", "null"} :
          /\ checker_session' = s
          /\ w_pc' = [w_pc EXCEPT ![w] =
                        IF s = "null" THEN "save"
                        ELSE LoopOrGiveUp(w_count[w])]
    /\ UNCHANGED <<run_pc, alpha_ids, alpha_ids_to_check, w_alpha_id, w_count,
                   w_response, w_file_exists, result_lock, result_file,
                   SimulatorVars>>

\* lines 33-41, 45: load_login_creds raises inside sign_in
WSignInRaises(w) ==
    /\ w_pc[w] = "sign_in"
    /\ TaskEnds(w)
    /\ UNCHANGED <<run_pc, checker_session, alpha_ids, alpha_ids_to_check,
                   result_lock, result_file, SimulatorVars>>

LockIsFree_always == TRUE

\* threading.Lock: free to take
LockIsFree == result_lock = NoWorker

\* line 169: `with self.result_lock`, blocking until the lock is free
WAcquire(w) ==
    /\ w_pc[w] = "save"
    /\ LockIsFree
    /\ result_lock' = w
    /\ w_pc' = [w_pc EXCEPT ![w] = "exists"]
    /\ UNCHANGED <<run_pc, checker_session, alpha_ids, alpha_ids_to_check,
                   w_alpha_id, w_count, w_response, w_file_exists, result_file,
                   SimulatorVars>>

\* line 170
WExists(w) ==
    /\ w_pc[w] = "exists"
    /\ w_file_exists' = [w_file_exists EXCEPT ![w] = result_file.exists]
    /\ w_pc' = [w_pc EXCEPT ![w] = "write"]
    /\ UNCHANGED <<run_pc, checker_session, alpha_ids, alpha_ids_to_check,
                   w_alpha_id, w_count, w_response, result_lock, result_file,
                   SimulatorVars>>

\* lines 171-176: open for append, the header if the file was not there, the
\* row, close
WWrite(w) ==
    /\ w_pc[w] = "write"
    /\ result_file' =
          [exists |-> TRUE,
           lines |-> result_file.lines
                     \o (IF w_file_exists[w] THEN <<>> ELSE <<HeaderLine>>)
                     \o <<RowLine(w_alpha_id[w])>>]
    /\ w_pc' = [w_pc EXCEPT ![w] = "release"]
    /\ UNCHANGED <<run_pc, checker_session, alpha_ids, alpha_ids_to_check,
                   w_alpha_id, w_count, w_response, w_file_exists, result_lock,
                   SimulatorVars>>

\* line 171: the open raises; the with statement of line 169 releases the
\* lock on the way out
WWriteError(w) ==
    /\ w_pc[w] = "write"
    /\ result_lock' = IF result_lock = w THEN NoWorker ELSE result_lock
    /\ TaskEnds(w)
    /\ UNCHANGED <<run_pc, checker_session, alpha_ids, alpha_ids_to_check,
                   result_file, SimulatorVars>>

\* end of the with block of line 169, lines 182-183
WRelease(w) ==
    /\ w_pc[w] = "release"
    /\ result_lock' = IF result_lock = w THEN NoWorker ELSE result_lock
    /\ TaskEnds(w)
    /\ UNCHANGED <<run_pc, checker_session, alpha_ids, alpha_ids_to_check,
                   result_file, SimulatorVars>>

\* the simulator, not running
SimulatorIdle ==
    /\ pc = "sign_in"
    /\ Memory0
    /\ orig = <<>>
    /\ file = Absent
    /\ tmp = Absent
    /\ bad = {}
    /\ max_concurrent = 1
    /\ batch_size = 1
    /\ simulated_alphas = NoRecords
    /\ fail_alphas = NoRecords
    /\ file0 = <<>>
    /\ taken = [r \in Rows |-> 0]
    /\ io_errors = 0
    /\ dispatched = {}

\* the checker when run() is called: the ids of the report, and the result
\* file of the day, which an earlier run may have left
CheckerInit ==
    /\ SimulatorIdle
    /\ run_pc = "start"
    /\ checker_session = "null"
    /\ \E n \in 0..NIds : alpha_ids_to_check = [i \in 1..n |-> i]
    /\ alpha_ids = alpha_ids_to_check
    /\ w_pc = [w \in Workers |-> "idle"]
    /\ w_alpha_id = [w \in Workers |-> NoAlpha]
    /\ w_count = [w \in Workers |-> 0]
    /\ w_response = [w \in Workers |-> "unbound"]
    /\ w_file_exists = [w \in Workers |-> FALSE]
    /\ result_lock = NoWorker
    /\ result_file \in {NoFile,
                        [exists |-> TRUE,
                         lines |-> <<HeaderLine, RowLine(1)>>]}

CheckerNext ==
    \/ RunStart
    \/ RunDone
    \/ \E w \in Workers : WTake(w)
    \/ \E w \in Workers : WGetOk(w)
    \/ \E w \in Workers : WGetHttpError(w)
    \/ \E w \in Workers : WGetNetworkError(w)
    \/ \E w \in Workers : WGetNoSession(w)
    \/ \E w \in Workers : WAfterSleep(w)
    \/ \E w \in Workers : WSignIn(w)
    \/ \E w \in Workers : WSignInRaises(w)
    \/ \E w \in Workers : WAcquire(w)
    \/ \E w \in Workers : WExists(w)
    \/ \E w \in Workers : WWrite(w)
    \/ \E w \in Workers : WWriteError(w)
    \/ \E w \in Workers : WRelease(w)

CheckerSpec == CheckerInit /\ [][CheckerNext]_vars

Next ==
    \/ sign_in
    \/ TbOpen \/ TbRead \/ TbWrite \/ TbReplace \/ TbError \/ TbExcept
    \/ TbReturn
    \/ TopUp
    \/ load_new_alpha_and_simulate
    \/ SubmitOk \/ SubmitNoLocation \/ Submit401 \/ Submit429 \/ SubmitError
    \/ SubmitNoSession \/ Backoff
    \/ Tick \/ Wake
    \/ log_failed_alpha \/ log_failed_alpha_write_error
    \/ check_simulation_status
    \/ PollDone \/ PollOk \/ Poll401 \/ PollError \/ PollNoSession
    \/ PollRetryOk \/ PollRetryError
    \/ HandleResponse \/ DetailsOk \/ DetailsError \/ DetailsWriteError
    \/ manage_simulations \/ ExitCheck \/ MainExcept
    \/ Interrupt
    \/ Kill

Spec == Init /\ [][Next]_vars

\* The process, or the one started after a kill, always takes its next step.
FairSpec == Init /\ [][Next]_vars /\ WF_vars(Next)

\* The program in the environment of the success scenario: the rows of the
\* queue file are well formed, every login, every submission and every
\* details request succeeds, every poll reports COMPLETE with an alpha id at
\* once, no file operation raises, and nobody kills or interrupts the process.
ScenarioInit == Init /\ bad = {}

ScenarioNext ==
    \/ sign_in /\ session' = "valid"
    \/ manage_simulations
    \/ check_simulation_status
    \/ PollOk /\ response' = "complete"
    \/ HandleResponse \/ DetailsOk \/ PollDone
    \/ TopUp
    \/ TbOpen \/ TbRead \/ TbWrite \/ TbReplace \/ TbReturn
    \/ load_new_alpha_and_simulate
    \/ SubmitOk
    \/ ExitCheck

ScenarioSpec == ScenarioInit /\ [][ScenarioNext]_vars /\ WF_vars(ScenarioNext)

\* The program in the environment of the expired-session scenario: as the
\* success scenario, except that the first request of every submission is
\* answered 401, the sign_in that follows returns a session (after any number
\* of failed login requests below count_limit), and the request after it is
\* accepted.
Scenario401Next ==
    \/ sign_in /\ session' = "valid"
    \/ manage_simulations
    \/ check_simulation_status
    \/ PollOk /\ response' = "complete"
    \/ HandleResponse \/ DetailsOk \/ PollDone
    \/ TopUp
    \/ TbOpen \/ TbRead \/ TbWrite \/ TbReplace \/ TbReturn
    \/ load_new_alpha_and_simulate
    \/ Submit401 /\ renewals = 0
    \/ SubmitOk /\ renewals = 1
    \/ ExitCheck

Scenario401Spec ==
    ScenarioInit /\ [][Scenario401Next]_vars /\ WF_vars(Scenario401Next)

\* The program in an environment where every login succeeds: sign_in returns
\* a session (after any number of failed login requests below count_limit
\* when it renews one).  The service may answer every request in every way;
\* nobody kills or interrupts the process.  self.session is then never None,
\* so the steps on a missing session cannot happen.
LiveNext ==
    \/ sign_in /\ session' = "valid"
    \/ manage_simulations
    \/ check_simulation_status
    \/ PollDone \/ PollOk \/ Poll401 \/ PollError
    \/ PollRetryOk \/ PollRetryError
    \/ HandleResponse \/ DetailsOk \/ DetailsError \/ DetailsWriteError
    \/ TopUp
    \/ TbOpen \/ TbRead \/ TbWrite \/ TbReplace \/ TbError \/ TbExcept
    \/ TbReturn
    \/ load_new_alpha_and_simulate
    \/ SubmitOk \/ SubmitNoLocation \/ Submit401 \/ Submit429 \/ SubmitError
    \/ Backoff \/ Tick \/ Wake
    \/ log_failed_alpha \/ log_failed_alpha_write_error
    \/ ExitCheck \/ MainExcept

\* a request of simulate_alpha is answered with success or a generic error
SubmitAnswered == SubmitOk \/ SubmitNoLocation \/ SubmitError

\* the locators the service can hand out within the bounds
Locators == Rows \X (1..(MaxConcurrent + 1))

\* a poll of a handle returns a response without a wait hint
TerminalPoll ==
    /\ PollOk \/ PollRetryOk
    /\ response' # "pending"

\* The thread always takes its next step; a submission that keeps sending
\* requests eventually gets success or a generic error; while handles keep
\* being polled, a poll eventually gets a terminal response.
LiveSpec ==
    /\ Init
    /\ [][LiveNext]_vars
    /\ WF_vars(LiveNext)
    /\ SF_vars(SubmitAnswered)
    /\ SF_vars(TerminalPoll)

\* ---------------------------------------------------------------------------
\* Properties
\* ---------------------------------------------------------------------------
WellFormed == Range(orig) \ bad

Handles(j) == Cardinality({i \in 1..Len(active_simulations) :
                              active_simulations[i][1] = j})

\* the number of places that hold job j: the queue file, the dequeued jobs in
\* memory (the batch takeBatch is returning, sim_queue_ls, the job being
\* submitted), the active set (or the handle just removed whose record is
\* being fetched), the Result Sink, the Failure Sink
Places(j) ==
    Count(file.rows, j)
    + (IF pc = "tb_return" THEN Count(alphas, j) ELSE 0)
    + Count(sim_queue_ls, j)
    + (IF alpha = j THEN 1 ELSE 0)
    + Handles(j)
    + (IF pc = "details" /\ sim_url[1] = j THEN 1 ELSE 0)
    + simulated_alphas[j]
    + fail_alphas[j]

\* a step of the running program, as opposed to its being killed and restarted
Running == ~(pc' = "sign_in" /\ ret' = "init")

\* the thread takes its next step: it is neither killed nor interrupted
Proceeds == Running /\ pc' # "exit_interrupt"

\* C1: job conservation: every job of the original queue file starts in
\* exactly one place (the queue file), and no step of the running program
\* changes the number of places that hold it: none is dropped, none is
\* counted twice.  (What a kill or an interrupt takes from memory is not held
\* against the program here, and the statement is made of the runs without
\* an I/O error.)
C1_JobConservation ==
    /\ \A j \in WellFormed : pc = "sign_in" /\ ret = "init" => Places(j) <= 1
    /\ [][(Proceeds /\ io_errors' = 0) =>
            \A j \in WellFormed : Places(j)' = Places(j)]_vars

\* C2: the active set never holds more than max_concurrent handles, and a job
\* is under submission only while the active set is below max_concurrent.
C2_BoundedActive ==
    /\ Len(active_simulations) <= max_concurrent
    /\ alpha # NoAlpha => Len(active_simulations) < max_concurrent

C2_Witness ==
    /\ pc = "exit_check"
    /\ max_concurrent = MaxConcurrent
    /\ Len(active_simulations) = max_concurrent

\* C3: no job is returned by two takeBatch calls (no duplication), and the
\* queue file loses rows only by the replace of a takeBatch that read them
\* into its batch (no loss), whatever kills happen in between.
C3_CrashAtomic ==
    /\ [](\A j \in Rows : taken[j] <= 1)
    /\ [][file'.rows # file.rows =>
            /\ pc = "tb_replace"
            /\ file'.rows = Remaining(file.rows, batch_size)
            /\ alphas = SelectWellFormed(Window(file.rows, batch_size), bad)]_vars

\* C4: when takeBatch(n) returns on a file of well-formed rows q, it returns
\* the first min(n, |q|) rows of q and the file holds the header and the
\* rest of q.
C4_TakeBatch ==
    (pc = "tb_return" /\ Range(file0) \cap bad = {}) =>
        /\ alphas = Window(file0, batch_size)
        /\ file = QueueFile(Remaining(file0, batch_size))

\* C5: a takeBatch that leaves the queue file as it found it delivers no job
\* to its caller.
C5_NoDeliveryWithoutReplace ==
    (pc = "tb_return" /\ file.rows = file0) => alphas = <<>>

C7_AttemptCountsGenericErrors ==
    /\ [](attempt = gen_errs /\ attempt <= max_retries)
    /\ []((pc = "log_failed" /\ session = "valid") => attempt = max_retries)
    /\ [](attempt = max_retries => pc \in {"log_failed", "exit_interrupt"})
    /\ [][(pc = "log_failed" /\ Running /\ pc' # "exit_interrupt") =>
            /\ pc' = "topup"
            /\ alpha' = NoAlpha
            /\ fail_alphas' \in {fail_alphas,
                                 [fail_alphas EXCEPT ![alpha] = @ + 1]}]_vars

C7_Witness ==
    /\ pc = "sleep"
    /\ attempt = max_retries - 1
    /\ gen_errs = max_retries - 1

\* C8: a submission always returns: whatever the remote service answers,
\* simulate_alpha is left after finitely many requests.
C8_SubmitReturns == (alpha # NoAlpha /\ io_errors = 0) ~> (alpha = NoAlpha)

\* C9: a terminal poll that reports status COMPLETE removes the handle and
\* goes on to write one row for that job to the Result Sink, none to the
\* Failure Sink (stated of the runs without an I/O error).
C9_CompleteIsRecorded ==
    /\ [][(pc = "handle" /\ response \in {"complete", "complete_noid"}
           /\ io_errors' = 0 /\ Proceeds) =>
            /\ active_simulations' = Remove(active_simulations, sim_url)
            /\ pc' = "details"]_vars
    /\ [][(pc = "details" /\ io_errors' = 0 /\ Proceeds) =>
            /\ simulated_alphas' =
                  [simulated_alphas EXCEPT ![sim_url[1]] = @ + 1]
            /\ fail_alphas' = fail_alphas]_vars

\* C10: a terminal poll that reports another status than COMPLETE removes the
\* handle and writes one row for that job to the Failure Sink, none to the
\* Result Sink (stated of the runs without an I/O error).
C10_OtherStatusIsFailure ==
    [][(pc = "handle" /\ response = "other" /\ io_errors' = 0 /\ Proceeds) =>
          /\ active_simulations' = Remove(active_simulations, sim_url)
          /\ fail_alphas' = [fail_alphas EXCEPT ![sim_url[1]] = @ + 1]
          /\ simulated_alphas' = simulated_alphas]_vars

\* C11: in the success scenario the control loop terminates, and it ends with
\* one Result Sink record for each job of the original queue file, no Failure
\* Sink record, no row left in the queue file and an empty active set.
C11_ScenarioCompletes ==
    <>[](/\ pc = "exit_complete"
         /\ \A j \in Rows :
               simulated_alphas[j] = (IF j \in Range(orig) THEN 1 ELSE 0)
         /\ fail_alphas = NoRecords
         /\ file.rows = <<>>
         /\ sim_queue_ls = <<>>
         /\ active_simulations = <<>>)

C11_Witness ==
    /\ pc = "exit_complete"
    /\ Len(orig) = NJobs
    /\ max_concurrent = MaxConcurrent
    /\ \A j \in Rows : simulated_alphas[j] = 1

RenewalOnSubmit401 ==
    /\ [][(pc = "simulate" /\ status_code' = "401" /\ Proceeds) =>
            /\ pc' = "sign_in"
            /\ ret' = "submit"
            /\ alpha' = alpha]_vars
    /\ [][(pc = "sign_in" /\ ret = "submit" /\ pc' # "sign_in"
           /\ session' = "valid" /\ Proceeds) =>
            /\ pc' = "simulate"
            /\ alpha' = alpha
            /\ attempt' = attempt
            /\ UNCHANGED <<Sinks, active_simulations>>]_vars
    /\ [][(pc = "sign_in" /\ ret = "submit" /\ session' = "null"
           /\ Proceeds) =>
            /\ pc' = "log_failed"
            /\ alpha' = alpha
            /\ UNCHANGED <<Sinks, active_simulations>>]_vars

C14_RenewedOnceThenCompleted ==
    /\ [](renewals <= 1)
    /\ [][(pc = "simulate" /\ pc' = "topup") =>
            /\ renewals = 1
            /\ Len(active_simulations') = Len(active_simulations) + 1
            /\ active_simulations'[Len(active_simulations')][1] = alpha
            /\ UNCHANGED Sinks]_vars
    /\ <>[](/\ pc = "exit_complete"
            /\ \A j \in Rows :
                  simulated_alphas[j] = (IF j \in Range(orig) THEN 1 ELSE 0)
            /\ fail_alphas = NoRecords
            /\ active_simulations = <<>>)

C14_Witness ==
    /\ pc = "details"
    /\ Len(orig) = NJobs
    /\ session = "valid"
    /\ simulated_alphas[sim_url[1]] = 0

\* C15: a 429 answer with a wait of N seconds puts the thread to sleep for N
\* seconds with the job in hand; each second that passes takes one off what
\* is left, and only when nothing is left is the next request sent, for the
\* same job; nothing else is submitted, recorded or polled meanwhile.
C15_RateLimitWaitsOut ==
    /\ [][(pc = "simulate" /\ status_code' = "429" /\ Proceeds) =>
            /\ pc' = "sleep"
            /\ sleep_left' \in 0..MaxWait
            /\ alpha' = alpha]_vars
    /\ [][(pc = "sleep" /\ Proceeds) =>
            /\ alpha' = alpha
            /\ UNCHANGED <<sim_queue_ls, active_simulations, Sinks, file>>
            /\ IF sleep_left > 0
               THEN pc' = "sleep" /\ sleep_left' = sleep_left - 1
               ELSE pc' = "simulate"]_vars
    /\ [](sleep_left > 0 => pc = "sleep")

C15_Witness ==
    /\ pc = "sleep"
    /\ status_code = "429"
    /\ sleep_left = MaxWait
    /\ file.rows # <<>>

\* C16: a submission that the service rejects as invalid (400) is not sent
\* again: the job goes to log_failed_alpha after that one request.
C16_RejectNotRetried ==
    [][(pc = "simulate" /\ status_code' = "400" /\ io_errors' = 0
        /\ Proceeds) =>
          /\ pc' = "log_failed"
          /\ alpha' = alpha]_vars

\* C17: a poll answered with a non-zero Retry-After changes nothing: neither
\* the GET nor the handling of its answer touches the active set (same
\* handles, same positions), the two sinks, the queue file or the in-memory
\* queue, and the loop goes on to the next handle.
C17_PendingPollIsFrame ==
    /\ [][(pc \in {"poll", "poll_retry"} /\ response' = "pending") =>
            /\ pc' = "handle"
            /\ sim_url' \in Range(active_simulations)
            /\ UNCHANGED <<active_simulations, Sinks, file, sim_queue_ls>>]_vars
    /\ [][(pc = "handle" /\ response = "pending" /\ Proceeds) =>
            /\ pc' = "poll"
            /\ UNCHANGED <<active_simulations, Sinks, file, sim_queue_ls>>]_vars

C17_Witness ==
    /\ pc = "handle"
    /\ response = "pending"
    /\ Len(active_simulations) = 2
    /\ sim_url = active_simulations[1]

\* C18: a 401 on a poll calls sign_in once; if that returns a session the GET
\* of the same handle is made once more and its outcome, answer or error, is
\* final for this cycle; if it returns none there is no retry. A failed poll,
\* a failed retry and the renewal itself leave the active set and both sinks
\* as they were, and the loop goes on with the handles not yet polled.
C18_PollRenewsAndRetriesOnce ==
    /\ [][(pc = "poll" /\ pc' = "sign_in" /\ Proceeds) =>
            /\ ret' = "poll"
            /\ sim_url' = Head(todo) /\ todo' = Tail(todo)
            /\ UNCHANGED <<active_simulations, Sinks>>]_vars
    /\ [][(pc = "sign_in" /\ ret = "poll" /\ Proceeds) =>
            /\ UNCHANGED <<active_simulations, Sinks, todo, sim_url>>
            /\ \/ pc' = "sign_in" /\ ret' = "poll"
               \/ pc' = "poll_retry" /\ session' = "valid"
               \/ pc' = "poll" /\ session' = "null"]_vars
    /\ [][(pc = "poll_retry" /\ Proceeds) =>
            /\ pc' \in {"handle", "poll"}
            /\ UNCHANGED <<active_simulations, Sinks, todo, sim_url,
                           session>>]_vars
    /\ [][(pc = "poll" /\ pc' = "poll" /\ todo # <<>>) =>
            /\ todo' = Tail(todo)
            /\ UNCHANGED <<active_simulations, Sinks>>]_vars

C18_Witness ==
    /\ pc = "poll_retry"
    /\ session = "valid"
    /\ sim_url \in Range(active_simulations)
    /\ Len(active_simulations) = 2

\* C19: when the process starts again after a kill that came before any
\* result or failure was recorded, the queue file holds a tail of the
\* original queue in the original order, none of the jobs that takeBatch
\* calls have delivered is in it, and no job has been delivered twice.
C19_RestartKeepsRemainder ==
    (pc = "sign_in" /\ ret = "init" /\ simulated_alphas = NoRecords
     /\ fail_alphas = NoRecords) =>
        /\ \E k \in 0..Len(orig) : file.rows = SubSeq(orig, k + 1, Len(orig))
        /\ \A j \in Rows : taken[j] > 0 => j \notin Range(file.rows)
        /\ \A j \in Rows : taken[j] <= 1

\* C20: when takeBatch returns from a call whose batch window held a record
\* that fails to parse, it returns the well-formed records of that window, in
\* order and without the malformed ones, and the queue file holds the header
\* and the rows behind the window.
C20_MalformedNotFatal ==
    (pc = "tb_return" /\ Range(Window(file0, batch_size)) \cap bad # {}) =>
        /\ alphas = SelectWellFormed(Window(file0, batch_size), bad)
        /\ file = QueueFile(Remaining(file0, batch_size))

\* the control points inside read_alphas_from_csv_in_batches
TbPcs == {"tb_open", "tb_read", "tb_write", "tb_replace", "tb_except",
          "tb_return"}

\* C21: a takeBatch on an absent queue file, or on a queue file without job
\* rows, hands an empty batch to its caller, never leaves through an
\* exception, and leaves the queue file as it was: still absent, or still
\* without rows.
C21_EmptyTakeBatch ==
    /\ [][(((pc = "topup" /\ HasCapacity) \/ pc = "load")
           /\ sim_queue_ls = <<>> /\ ~file.exists /\ Proceeds) =>
            /\ pc' \in {"exit_check", "topup"}
            /\ sim_queue_ls' = <<>>
            /\ UNCHANGED <<file, taken>>]_vars
    /\ [][(pc \in TbPcs /\ file0 = <<>> /\ Proceeds) =>
            /\ pc' \in TbPcs \cup {"exit_check", "topup"}
            /\ pc' \notin TbPcs => sim_queue_ls' = <<>> /\ taken' = taken
            /\ file' = file]_vars
    /\ [](pc \in TbPcs /\ file0 = <<>> => alphas = <<>> /\ file.rows = <<>>)

C21_Witness ==
    /\ pc = "tb_return"
    /\ file0 = <<>>
    /\ file = QueueFile(<<>>)
    /\ orig # <<>>

\* a step that ends in the first state of a new process
Restarted == pc' = "sign_in" /\ ret' = "init" /\ count' = 0

\* C22: sign_in posts at most count_limit = 5 times. While it runs, count is
\* the number of failed posts so far; a successful post returns the session
\* at once, a failed one is followed by another post as long as fewer than
\* five have failed, and sign_in returns no session exactly at the fifth
\* failure.
C22_BoundedLogin ==
    /\ [](pc = "sign_in" => count \in 0..(count_limit - 1))
    /\ [](pc # "sign_in" => count = 0)
    /\ [][(pc = "sign_in" /\ ~Restarted) =>
            \/ /\ pc' = "sign_in"
               /\ count' = count + 1
               /\ session' = session
            \/ /\ pc' \notin {"sign_in", "exit_interrupt"}
               /\ session' = "valid"
            \/ /\ pc' \notin {"sign_in", "exit_interrupt"}
               /\ session' = "null"
               /\ count = count_limit - 1
            \/ pc' = "exit_interrupt"]_vars

C22_Witness ==
    /\ pc = "sign_in"
    /\ count = count_limit - 1
    /\ ret = "poll"

\* C23: when the constructor's sign_in returned no session,
\* manage_simulations returns before its loop: the process goes from the
\* initial sign_in through manage to exit_login and stays there, and none of
\* these steps touches the queue file, the temporary file, a sink, the
\* in-memory queue or the active set, or delivers a job.
C23_NoLoginNoLoop ==
    /\ [][(pc = "sign_in" /\ ret = "init" /\ ~Restarted) =>
            /\ pc' \in {"sign_in", "manage"}
            /\ UNCHANGED <<file, tmp, Sinks, sim_queue_ls,
                           active_simulations, taken, alpha>>]_vars
    /\ [][(pc = "manage" /\ session = "null" /\ ~Restarted) =>
            /\ pc' = "exit_login"
            /\ UNCHANGED <<file, tmp, Sinks, sim_queue_ls,
                           active_simulations, taken, alpha>>]_vars
    /\ [][pc' = "exit_login" => pc = "manage" /\ session = "null"]_vars
    /\ [][pc' = "manage" => pc = "sign_in" /\ ret = "init"]_vars
    /\ [][pc = "exit_login" => Restarted]_vars
    /\ [](pc \in {"manage", "exit_login"} =>
            /\ sim_queue_ls = <<>>
            /\ active_simulations = <<>>
            /\ alpha = NoAlpha)

C23_Witness ==
    /\ pc = "exit_login"
    /\ file = QueueFile(orig)
    /\ Len(orig) = NJobs

\* C24: an exception raised while a job is polled or submitted is caught by
\* the loop's handler, which starts the next cycle; the loop is left only by
\* the completion test of line 239, by an interrupt, or, before it was ever
\* entered, because the initial sign_in gave no session.
C24_LoopContainsErrors ==
    /\ [][(pc = "except" /\ Proceeds) => pc' = "status"]_vars
    /\ [][(InLoop /\ Proceeds) => (InLoop' \/ pc' = "exit_complete")]_vars
    /\ [][(pc' = "exit_complete" /\ pc # "exit_complete") =>
            /\ pc = "exit_check"
            /\ sim_queue_ls = <<>>
            /\ active_simulations = <<>>
            /\ ~is_file_present]_vars
    /\ [][(pc' = "exit_login" /\ pc # "exit_login") =>
            pc = "manage" /\ session = "null"]_vars
    /\ [][(pc' = "exit_interrupt" /\ pc # "exit_interrupt") => InLoop]_vars

C24_Witness ==
    /\ pc = "except"
    /\ session = "null"
    /\ active_simulations # <<>>
    /\ file.rows # <<>>

\* C25: at no time are two sign_in calls of the checker's workers in
\* progress at once.
C25_RenewalExclusive ==
    Cardinality({w \in Workers : w_pc[w] = "sign_in"}) <= 1

\* the workers inside save_result's with block
InSaveSection == {w \in Workers : w_pc[w] \in {"exists", "write", "release"}}

\* C26: at most one worker of the pool is between the existence test and the
\* end of the write of save_result, and it holds result_lock; the result
\* file, once it has lines, starts with the header, has no second header,
\* and grows only by whole lines that the one worker in the section appends.
C26_ResultSinkExclusive ==
    /\ [](Cardinality(InSaveSection) <= 1)
    /\ [](\A w \in InSaveSection : result_lock = w)
    /\ [](\A i \in 1..Len(result_file.lines) :
            result_file.lines[i].kind = "header" <=> i = 1)
    /\ [](result_file.exists <=> result_file.lines # <<>>)
    /\ [][result_file' # result_file =>
            \E w \in InSaveSection :
               /\ w_pc[w] = "write"
               /\ \E new \in {<<RowLine(w_alpha_id[w])>>,
                              <<HeaderLine, RowLine(w_alpha_id[w])>>} :
                     result_file'.lines = result_file.lines \o new]_vars

C26_Witness ==
    /\ \E w \in Workers :
          /\ w_pc[w] = "write"
          /\ ~w_file_exists[w]
          /\ \E v \in Workers \ {w} : w_pc[v] = "save"
    /\ ~result_file.exists

\* C27: an interrupt ends the loop only between the steps of a cycle: when
\* the loop is left for the interrupt (in a run without a failed file
\* operation) no job is popped and still without its
\* handle or failure row, no handle is removed and still without its result
\* row, and a takeBatch under way has the queue file at its content of before
\* or of after the batch.
C27_InterruptBetweenSteps ==
    [][(pc' = "exit_interrupt" /\ pc # "exit_interrupt" /\ io_errors = 0) =>
          /\ alpha = NoAlpha
          /\ pc # "details"
          /\ pc \in TbPcs => file.rows \in {file0,
                                             Remaining(file0, batch_size)}]_vars

\* the control points of the top-up, the submission of a job included
TopUpPcs == {"topup", "load", "simulate", "sleep", "backoff", "log_failed"}
               \cup TbPcs

\* C28: a cycle first polls every handle of the active set as it was when the
\* cycle began, one after the other, then tops up, then paces: no submission
\* step is taken while a handle of that snapshot is still to be polled, and
\* (in a run without a failed file operation) the top-up ends only with the
\* active set at max_concurrent or with no job left in memory or in the
\* queue file.
C28_CycleOrder ==
    /\ [](pc \in TopUpPcs => todo = <<>>)
    /\ [][(pc = "status" /\ Proceeds) =>
            \/ pc' = "poll" /\ todo' = active_simulations
            \/ pc' = "topup" /\ active_simulations = <<>>]_vars
    /\ [][(todo # <<>> /\ todo' # todo /\ Proceeds) =>
            \/ todo' = Tail(todo) /\ sim_url' = Head(todo)
            \/ pc' = "except"]_vars
    /\ [][(pc \in TopUpPcs /\ pc' = "exit_check" /\ io_errors' = 0) =>
            \/ ~HasCapacity
            \/ /\ sim_queue_ls' = <<>>
               /\ Range(file'.rows) \cap WellFormed = {}]_vars

C30_DispatchEndsTrackedOrFailed ==
    [][(alpha # NoAlpha /\ alpha' = NoAlpha /\ Proceeds /\ io_errors' = 0) =>
          \/ /\ Len(active_simulations') = Len(active_simulations) + 1
             /\ active_simulations'[Len(active_simulations')][1] = alpha
             /\ fail_alphas' = fail_alphas
          \/ /\ active_simulations' = active_simulations
             /\ fail_alphas' = [fail_alphas EXCEPT ![alpha] = @ + 1]]_vars

\* C31: at every point of the running loop where the dispatcher (line 88) or
\* the tracker (lines 152 and 162) is about to send a request, self.session
\* is a session and not None (stated for runs in which no file operation
\* has failed).
C31_SessionAtRequest ==
    (/\ io_errors = 0
     /\ \/ pc = "simulate"
        \/ pc = "poll" /\ todo # <<>>
        \/ pc = "poll_retry") => session = "valid"

\* the jobs that were taken out of the queue file, are held in memory only
\* and have not been answered by the service: the rows read by a running
\* takeBatch, the in-memory list, and the job simulate_alpha is working on
InMemory ==
    Len(alphas) + Len(sim_queue_ls) + (IF alpha # NoAlpha THEN 1 ELSE 0)

C33_LoopCompletes ==
    /\ <>(pc = "exit_complete")
    /\ \A h \in Locators :
          (h \in Range(active_simulations)) ~> (sim_url = h)

\* the loop has completed after a run in which one job went to the Result
\* Sink and another one, its retries exhausted, to the Failure Sink
C33_Witness ==
    /\ pc = "exit_complete"
    /\ max_concurrent >= 1
    /\ \E j \in Rows : simulated_alphas[j] > 0
    /\ \E j \in Rows : fail_alphas[j] > 0

\* the number of records of the alpha id in the result file
Records(f, id) ==
    Cardinality({k \in 1..Len(f.lines) : f.lines[k] = RowLine(id)})

\* C34: when the pool of a run has finished, the result file holds exactly
\* one record for every alpha id of the report, those that it held before
\* the run included; and at no time does it hold two records of one id.
C34_OneRecordPerId ==
    /\ [][(run_pc = "pool" /\ run_pc' = "done") =>
             \A id \in Range(alpha_ids) : Records(result_file', id) = 1]_vars
    /\ [](\A id \in Ids : Records(result_file, id) <= 1)

=============================================================================
